---- MODULE Spec2Model ----
(***************************************************************************)
(* Model of the streaming JSON parser of src/src/stream_parser.py          *)
(* (class StreamJsonParser).  Characters are one-character strings, the    *)
(* buffer and the partial token are sequences of characters, Python        *)
(* containers live in a heap of nodes so that the aliasing between the     *)
(* stack frames and the value tree is kept.  Indices are 0-based as in     *)
(* the source; element i of a Python list is element i + 1 of the          *)
(* sequence.                                                               *)
(***************************************************************************)
EXTENDS Integers, Sequences, FiniteSets, TLC

VARIABLES buffer, stack, root, last_index, partial_token, token_type, heap,
          doc, pos, outcome, empties, snapshot, stack_parser

\* the fields of the parser object
parser_vars == <<buffer, stack, root, last_index, partial_token, token_type, heap>>
\* the caller: the text it will deliver and how far it got, the outcome of
\* its last consume call, the number of empty chunks it passed, and the
\* value its last get() call returned
caller_vars == <<doc, pos, outcome, empties, snapshot>>
\* stack_parser is an instance of stack_stream_parser.StreamJsonParser that is
\* given the same chunks
vars == <<buffer, stack, root, last_index, partial_token, token_type, heap,
          doc, pos, outcome, empties, snapshot, stack_parser>>

(***************************************************************************)
(* Bounds of the model.                                                    *)
(***************************************************************************)
MaxFree == 3
MaxEmpty == 1

(***************************************************************************)
(* ParserState (IntEnum).                                                  *)
(***************************************************************************)
OBJECT_WAITING_KEY == 1
OBJECT_WAITING_COLON == 2
OBJECT_WAITING_VALUE == 3
OBJECT_WAITING_COMMA == 4
ARRAY_WAITING_VALUE == 5
ARRAY_WAITING_COMMA == 6

(***************************************************************************)
(* Python values.  None and the JSON literal null are the same Python      *)
(* object.  A container value is a reference into the heap.                *)
(***************************************************************************)
PyNone == [t |-> "None"]
PyStr(s) == [t |-> "str", s |-> s]
PyInt(n) == [t |-> "int", n |-> n]
PyFloat(m, e) == [t |-> "float", m |-> m, e |-> e]
PyBool(b) == [t |-> "bool", b |-> b]
PyRef(id) == [t |-> "ref", id |-> id]
\* the outcome of int() or float() on a text that is not a number
ValueError == [t |-> "ValueError"]

Digits == <<"0", "1", "2", "3", "4", "5", "6", "7", "8", "9">>
IsDigit(c) == \E k \in 1..10 : Digits[k] = c
DigitVal(c) == (CHOOSE k \in 1..10 : Digits[k] = c) - 1

\* c in "<chars>": membership of a character in a Python string literal
InChars(c, chars) == \E k \in 1..Len(chars) : chars[k] = c

RECURSIVE Pow10(_)
Pow10(k) == IF k <= 0 THEN 1 ELSE 10 * Pow10(k - 1)

\* a float is kept as mantissa * 10^exponent with no trailing zero in the mantissa
RECURSIVE NormFloat(_, _)
NormFloat(m, e) ==
    IF m = 0 THEN PyFloat(0, 0)
    ELSE IF m % 10 = 0 THEN NormFloat(m \div 10, e + 1)
    ELSE PyFloat(m, e)

\* numeric value of a Python number or bool as a normalised mantissa/exponent pair
NumOf(v) ==
    IF v.t = "int" THEN NormFloat(v.n, 0)
    ELSE IF v.t = "bool" THEN NormFloat(IF v.b THEN 1 ELSE 0, 0)
    ELSE v

\* Python == on the scalars that can be dictionary keys (hash equality):
\* True == 1 == 1.0, strings by content, None only equals None
PyEq(a, b) ==
    LET numa == a.t \in {"int", "float", "bool"}
        numb == b.t \in {"int", "float", "bool"}
    IN  IF numa /\ numb THEN NumOf(a) = NumOf(b)
        ELSE IF numa \/ numb THEN FALSE
        ELSE a = b

(***************************************************************************)
(* int(text) and float(text) of Python on the texts the number scanner can *)
(* build (characters of "0123456789+-.eE").  The result is ValueError      *)
(* when the conversion raises.                                             *)
(***************************************************************************)
RECURSIVE DigitRun(_, _)
\* number of leading digits of text from 1-based position k
DigitRun(text, k) ==
    IF k <= Len(text) /\ IsDigit(text[k]) THEN 1 + DigitRun(text, k + 1) ELSE 0

RECURSIVE DigitsValue(_, _, _)
\* value of the n digits of text starting at position k
DigitsValue(text, k, n) ==
    IF n = 0 THEN 0
    ELSE DigitsValue(text, k, n - 1) * 10 + DigitVal(text[k + n - 1])

SignLen(text, k) == IF k <= Len(text) /\ text[k] \in {"+", "-"} THEN 1 ELSE 0
SignOf(text, k) == IF k <= Len(text) /\ text[k] = "-" THEN -1 ELSE 1

py_int(text) ==
    LET s == SignLen(text, 1)
        n == DigitRun(text, 1 + s)
    IN  IF n > 0 /\ s + n = Len(text)
        THEN PyInt(SignOf(text, 1) * DigitsValue(text, 1 + s, n))
        ELSE ValueError

py_float(text) ==
    LET s == SignLen(text, 1)
        ni == DigitRun(text, 1 + s)
        dotAt == 1 + s + ni
        hasDot == dotAt <= Len(text) /\ text[dotAt] = "."
        nf == IF hasDot THEN DigitRun(text, dotAt + 1) ELSE 0
        expAt == dotAt + (IF hasDot THEN 1 + nf ELSE 0)
        hasExp == expAt <= Len(text) /\ text[expAt] \in {"e", "E"}
        es == IF hasExp THEN SignLen(text, expAt + 1) ELSE 0
        ne == IF hasExp THEN DigitRun(text, expAt + 1 + es) ELSE 0
        endAt == expAt + (IF hasExp THEN 1 + es + ne ELSE 0)
        mant == DigitsValue(text, 1 + s, ni) * Pow10(nf)
                + (IF hasDot THEN DigitsValue(text, dotAt + 1, nf) ELSE 0)
        ex == IF hasExp THEN SignOf(text, expAt + 1) * DigitsValue(text, expAt + 1 + es, ne)
              ELSE 0
    IN  IF ni + nf > 0 /\ (hasExp => ne > 0) /\ endAt = Len(text) + 1
        THEN NormFloat(SignOf(text, 1) * mant, ex - nf)
        ELSE ValueError

\* value.lower() contains "e", or value contains "."
LooksFloat(text) == \E k \in 1..Len(text) : text[k] \in {"e", "E", "."}

(***************************************************************************)
(* Python dict and list operations on heap nodes.  A dict node keeps its   *)
(* entries in first-insertion order; assigning to an existing key keeps    *)
(* the position and the stored key object.                                 *)
(***************************************************************************)
NewDict == [kind |-> "dict", items |-> <<>>]
NewList == [kind |-> "list", items |-> <<>>]

DictHas(items, k) == \E j \in 1..Len(items) : PyEq(items[j].k, k)
DictIndex(items, k) == CHOOSE j \in 1..Len(items) : PyEq(items[j].k, k)
DictGet(items, k) == items[DictIndex(items, k)].v
DictSet(items, k, v) ==
    IF DictHas(items, k)
    THEN [items EXCEPT ![DictIndex(items, k)].v = v]
    ELSE Append(items, [k |-> k, v |-> v])

\* isinstance(container, dict)
IsDict(p, id) == p.heap[id].kind = "dict"

\* container[last_key] = value
SetItem(p, id, k, v) == [p EXCEPT !.heap[id].items = DictSet(@, k, v)]
\* container.append(value)
ListAppend(p, id, v) == [p EXCEPT !.heap[id].items = Append(@, v)]
\* container[-1] = value
ListSetLast(p, id, v) == [p EXCEPT !.heap[id].items[Len(p.heap[id].items)] = v]

Raise(p, e) == [p EXCEPT !.exc = e]

\* old += value where value is a str: str concatenation, list.extend of the
\* characters, TypeError for every other left operand
StrChars(s) == [j \in 1..Len(s) |-> PyStr(<<s[j]>>)]
IAddable(p, old) ==
    \/ old.t = "str"
    \/ old.t = "ref" /\ p.heap[old.id].kind = "list"
IAddValue(old, value) == IF old.t = "str" THEN PyStr(old.s \o value.s) ELSE old
IAddHeap(p, old, value) ==
    IF old.t = "ref"
    THEN [p EXCEPT !.heap[old.id].items = @ \o StrChars(value.s)]
    ELSE p

\* self.stack[-1] = (container, state, last_key, is_value_partial)
Frame(c, st, k, part) ==
    [container |-> c, state |-> st, last_key |-> k, is_value_partial |-> part]
Top(p) == p.stack[Len(p.stack)]
SetTop(p, f) == [p EXCEPT !.stack[Len(p.stack)] = f]
Push(p, f) == [p EXCEPT !.stack = Append(@, f)]
Pop(p) == [p EXCEPT !.stack = SubSeq(@, 1, Len(@) - 1)]

\* obj = {} / arr = []: a fresh container object
Alloc(p, node) == [p EXCEPT !.heap = Append(@, node)]
NewId(p) == Len(p.heap) + 1

IsWhitespace(char) == char \in {" ", "\t", "\n", "\r"}

\* a scan that skips nothing: the index it is given
FindNoSkip(buf, index) == index

RECURSIVE _find_non_whitespace_index(_, _)
_find_non_whitespace_index(buf, index) ==
    IF index < Len(buf)
    THEN IF ~IsWhitespace(buf[index + 1]) THEN index
         ELSE _find_non_whitespace_index(buf, index + 1)
    ELSE index

RECURSIVE ReadStringPastEnd(_, _)
\* a _read_string that steps over the character after a backslash without
\* reading it
ReadStringPastEnd(p, i) ==
    IF i < Len(p.buffer)
    THEN IF p.buffer[i + 1] = "\\"
         THEN ReadStringPastEnd([p EXCEPT !.partial_token = Append(@, p.buffer[i + 1])], i + 2)
         ELSE IF p.buffer[i + 1] = "\""
         THEN [p |-> p, i |-> i + 1, completed |-> TRUE]
         ELSE ReadStringPastEnd([p EXCEPT !.partial_token = Append(@, p.buffer[i + 1])], i + 1)
    ELSE [p |-> p, i |-> i, completed |-> FALSE]

RECURSIVE _read_string(_, _)
\* returns the parser, the new index and the completed flag; exc is set to
\* IndexError when a backslash is the last character of the buffer
_read_string(p, i) ==
    IF i < Len(p.buffer)
    THEN IF p.buffer[i + 1] = "\\"
         THEN LET p1 == [p EXCEPT !.partial_token = Append(@, p.buffer[i + 1])]
              IN  IF i + 1 < Len(p.buffer)
                  THEN _read_string([p1 EXCEPT !.partial_token = Append(@, p.buffer[i + 2])],
                                    i + 2)
                  ELSE [p |-> Raise(p1, "IndexError"), i |-> i, completed |-> FALSE]
         ELSE IF p.buffer[i + 1] = "\""
         THEN [p |-> p, i |-> i + 1, completed |-> TRUE]
         ELSE _read_string([p EXCEPT !.partial_token = Append(@, p.buffer[i + 1])], i + 1)
    ELSE [p |-> p, i |-> i, completed |-> FALSE]

\* a '{' handler that opens a new top-level object although root is set
StartObjectAgain(p) ==
    IF Len(p.stack) = 0
    THEN Push(Alloc(p, NewDict), Frame(NewId(p), OBJECT_WAITING_KEY, PyNone, FALSE))
    ELSE IF Top(p).state \notin {OBJECT_WAITING_VALUE, ARRAY_WAITING_VALUE}
    THEN Raise(p, "MalformedJSON")
    ELSE Push(SetTop(IF IsDict(p, Top(p).container)
                     THEN SetItem(Alloc(p, NewDict), Top(p).container, Top(p).last_key,
                                  PyRef(NewId(p)))
                     ELSE ListAppend(Alloc(p, NewDict), Top(p).container, PyRef(NewId(p))),
                     Frame(Top(p).container,
                           IF IsDict(p, Top(p).container) THEN OBJECT_WAITING_COMMA
                                                          ELSE ARRAY_WAITING_COMMA,
                           PyNone, FALSE)),
              Frame(NewId(p), OBJECT_WAITING_KEY, PyNone, FALSE))

_start_object(p) ==
    LET obj == NewId(p)
        p1 == Alloc(p, NewDict)
    IN  IF Len(p.stack) = 0
        THEN IF p.root # PyNone
             THEN Raise(p, "MalformedJSON")
             ELSE Push(p1, Frame(obj, OBJECT_WAITING_KEY, PyNone, FALSE))
        ELSE LET f == Top(p)
                 is_an_object == IsDict(p, f.container)
                 p2 == IF is_an_object
                       THEN SetItem(p1, f.container, f.last_key, PyRef(obj))
                       ELSE ListAppend(p1, f.container, PyRef(obj))
                 p3 == SetTop(p2, Frame(f.container,
                                        IF is_an_object THEN OBJECT_WAITING_COMMA
                                                        ELSE ARRAY_WAITING_COMMA,
                                        PyNone, FALSE))
             IN  IF f.state \notin {OBJECT_WAITING_VALUE, ARRAY_WAITING_VALUE}
                 THEN Raise(p, "MalformedJSON")
                 ELSE Push(p3, Frame(obj, OBJECT_WAITING_KEY, PyNone, FALSE))

\* a ':' handler that installs the pending key, with None, before its value
\* has begun
DictColonInstallsKey(p) ==
    IF Len(p.stack) = 0 THEN Raise(p, "MalformedJSON")
    ELSE IF ~IsDict(p, Top(p).container) THEN Raise(p, "MalformedJSON")
    ELSE IF Top(p).state # OBJECT_WAITING_COLON THEN Raise(p, "MalformedJSON")
    ELSE SetTop(SetItem(p, Top(p).container, Top(p).last_key, PyNone),
                Frame(Top(p).container, OBJECT_WAITING_VALUE,
                      Top(p).last_key, Top(p).is_value_partial))

_dict_colon(p) ==
    IF Len(p.stack) = 0 THEN Raise(p, "MalformedJSON")
    ELSE LET f == Top(p)
         IN  IF ~IsDict(p, f.container) THEN Raise(p, "MalformedJSON")
             ELSE IF f.state # OBJECT_WAITING_COLON THEN Raise(p, "MalformedJSON")
             ELSE SetTop(p, Frame(f.container, OBJECT_WAITING_VALUE,
                                  f.last_key, f.is_value_partial))

\* a '}' handler that pops the top frame without looking at its kind
EndObjectAnyKind(p) ==
    IF Len(p.stack) = 0 THEN Raise(p, "MalformedJSON")
    ELSE IF Len(p.stack) = 1 THEN [Pop(p) EXCEPT !.root = PyRef(Top(p).container)]
    ELSE Pop(p)

_end_object(p) ==
    IF Len(p.stack) = 0 THEN Raise(p, "MalformedJSON")
    ELSE LET f == Top(p)
             p1 == Pop(p)
         IN  IF ~IsDict(p, f.container) THEN Raise(p, "MalformedJSON")
             ELSE IF f.state \notin {OBJECT_WAITING_KEY, OBJECT_WAITING_VALUE,
                                     OBJECT_WAITING_COMMA}
             THEN Raise(p, "MalformedJSON")
             ELSE IF Len(p1.stack) = 0 THEN [p1 EXCEPT !.root = PyRef(f.container)]
             ELSE p1

_start_array(p) ==
    LET arr == NewId(p)
        p1 == Alloc(p, NewList)
    IN  IF Len(p.stack) = 0
        THEN IF p.root # PyNone
             THEN Raise(p, "MalformedJSON")
             ELSE Push(p1, Frame(arr, ARRAY_WAITING_VALUE, PyNone, FALSE))
        ELSE LET f == Top(p)
                 is_an_obj == IsDict(p, f.container)
                 p2 == IF is_an_obj
                       THEN SetItem(p1, f.container, f.last_key, PyRef(arr))
                       ELSE ListAppend(p1, f.container, PyRef(arr))
                 p3 == SetTop(p2, Frame(f.container,
                                        IF is_an_obj THEN OBJECT_WAITING_COMMA
                                                     ELSE ARRAY_WAITING_COMMA,
                                        f.last_key, FALSE))
             IN  IF f.state \notin {OBJECT_WAITING_VALUE, ARRAY_WAITING_VALUE}
                 THEN Raise(p, "MalformedJSON")
                 ELSE Push(p3, Frame(arr, ARRAY_WAITING_VALUE, PyNone, FALSE))

_end_array(p) ==
    IF Len(p.stack) = 0 THEN Raise(p, "MalformedJSON")
    ELSE LET f == Top(p)
             p1 == Pop(p)
         IN  IF IsDict(p, f.container) THEN Raise(p, "MalformedJSON")
             ELSE IF f.state \notin {ARRAY_WAITING_VALUE, ARRAY_WAITING_COMMA}
             THEN Raise(p, "MalformedJSON")
             ELSE IF Len(p1.stack) = 0 THEN [p1 EXCEPT !.root = PyRef(f.container)]
             ELSE p1

\* a comma handler that does not look at the state of the top frame
GotCommaAnyState(p) ==
    IF Len(p.stack) = 0 THEN Raise(p, "MalformedJSON")
    ELSE SetTop(p, Frame(Top(p).container,
                         IF IsDict(p, Top(p).container) THEN OBJECT_WAITING_KEY
                                                        ELSE ARRAY_WAITING_VALUE,
                         Top(p).last_key, Top(p).is_value_partial))

_got_comma(p) ==
    IF Len(p.stack) = 0 THEN Raise(p, "MalformedJSON")
    ELSE LET f == Top(p)
         IN  IF f.state \notin {OBJECT_WAITING_COMMA, ARRAY_WAITING_COMMA}
             THEN Raise(p, "MalformedJSON")
             ELSE SetTop(p, Frame(f.container,
                                  IF IsDict(p, f.container) THEN OBJECT_WAITING_KEY
                                                            ELSE ARRAY_WAITING_VALUE,
                                  f.last_key, f.is_value_partial))


\* a _commit_value that always appends to an array, also when the last
\* element is the provisional value of the string being completed
CommitValueAppends(p, value) ==
    IF Len(p.stack) = 0 THEN Raise(p, "MalformedJSON")
    ELSE IF IsDict(p, Top(p).container)
    THEN IF Top(p).state = OBJECT_WAITING_KEY
         THEN SetTop(p, Frame(Top(p).container, OBJECT_WAITING_COLON, value, FALSE))
         ELSE IF Top(p).state = OBJECT_WAITING_VALUE
         THEN SetTop(SetItem(p, Top(p).container, Top(p).last_key, value),
                     Frame(Top(p).container, OBJECT_WAITING_COMMA, PyNone, FALSE))
         ELSE Raise(p, "MalformedJSON")
    ELSE IF Top(p).state # ARRAY_WAITING_VALUE THEN Raise(p, "MalformedJSON")
    ELSE SetTop(ListAppend(p, Top(p).container, value),
                Frame(Top(p).container, ARRAY_WAITING_COMMA, PyNone, FALSE))

\* a _commit_value that puts an array element into the array that was closed
\* just before it, when there is one
CommitValueIntoClosed(p, value) ==
    IF Len(p.stack) = 0 THEN Raise(p, "MalformedJSON")
    ELSE IF IsDict(p, Top(p).container)
    THEN IF Top(p).state = OBJECT_WAITING_KEY
         THEN SetTop(p, Frame(Top(p).container, OBJECT_WAITING_COLON, value, FALSE))
         ELSE IF Top(p).state = OBJECT_WAITING_VALUE
         THEN SetTop(SetItem(p, Top(p).container, Top(p).last_key, value),
                     Frame(Top(p).container, OBJECT_WAITING_COMMA, PyNone, FALSE))
         ELSE Raise(p, "MalformedJSON")
    ELSE IF Top(p).state # ARRAY_WAITING_VALUE THEN Raise(p, "MalformedJSON")
    ELSE IF Top(p).is_value_partial /\ Len(p.heap[Top(p).container].items) = 0
    THEN Raise(p, "TypeError")
    ELSE IF /\ Len(p.heap[Top(p).container].items) > 0
            /\ p.heap[Top(p).container].items[Len(p.heap[Top(p).container].items)].t = "ref"
            /\ ~IsDict(p, p.heap[Top(p).container].items[
                              Len(p.heap[Top(p).container].items)].id)
    THEN SetTop(ListAppend(p, p.heap[Top(p).container].items[
                                  Len(p.heap[Top(p).container].items)].id, value),
                Frame(Top(p).container, ARRAY_WAITING_COMMA, PyNone, FALSE))
    ELSE SetTop(IF Top(p).is_value_partial THEN ListSetLast(p, Top(p).container, value)
                                           ELSE ListAppend(p, Top(p).container, value),
                Frame(Top(p).container, ARRAY_WAITING_COMMA, PyNone, FALSE))

_commit_value(p, value) ==
    IF Len(p.stack) = 0 THEN Raise(p, "MalformedJSON")
    ELSE LET f == Top(p)
             c == f.container
         IN  IF IsDict(p, c)
             THEN IF f.state = OBJECT_WAITING_KEY
                  THEN SetTop(p, Frame(c, OBJECT_WAITING_COLON, value, FALSE))
                  ELSE IF f.state = OBJECT_WAITING_VALUE
                  THEN SetTop(SetItem(p, c, f.last_key, value),
                              Frame(c, OBJECT_WAITING_COMMA, PyNone, FALSE))
                  ELSE Raise(p, "MalformedJSON")
             ELSE IF f.state # ARRAY_WAITING_VALUE THEN Raise(p, "MalformedJSON")
             ELSE IF f.is_value_partial /\ Len(p.heap[c].items) = 0
             THEN Raise(p, "TypeError")
             ELSE SetTop(IF f.is_value_partial THEN ListSetLast(p, c, value)
                                               ELSE ListAppend(p, c, value),
                         Frame(c, ARRAY_WAITING_COMMA, PyNone, FALSE))

_commit_partial_value(p, value) ==
    IF Len(p.stack) = 0 THEN Raise(p, "MalformedJSON")
    ELSE LET f == Top(p)
             c == f.container
             items == p.heap[c].items
         IN  IF IsDict(p, c)
             THEN IF f.state = OBJECT_WAITING_KEY THEN p
                  ELSE IF f.state = OBJECT_WAITING_VALUE
                  THEN IF f.is_value_partial /\ DictHas(items, f.last_key)
                       THEN LET old == DictGet(items, f.last_key)
                            IN  IF ~IAddable(p, old) THEN Raise(p, "TypeError")
                                ELSE SetTop(SetItem(IAddHeap(p, old, value), c, f.last_key,
                                                    IAddValue(old, value)),
                                            Frame(c, f.state, f.last_key, TRUE))
                       ELSE SetTop(SetItem(p, c, f.last_key, value),
                                   Frame(c, f.state, f.last_key, TRUE))
                  ELSE Raise(p, "MalformedJSON")
             ELSE IF f.state # ARRAY_WAITING_VALUE THEN Raise(p, "MalformedJSON")
             ELSE IF f.is_value_partial /\ Len(items) > 0
             THEN LET old == items[Len(items)]
                  IN  IF ~IAddable(p, old) THEN Raise(p, "TypeError")
                      ELSE SetTop(ListSetLast(IAddHeap(p, old, value), c, IAddValue(old, value)),
                                  Frame(c, f.state, f.last_key, TRUE))
             ELSE SetTop(ListAppend(p, c, value), Frame(c, f.state, f.last_key, TRUE))

Literals == {<<"t", "r", "u", "e">>, <<"f", "a", "l", "s", "e">>, <<"n", "u", "l", "l">>}
\* lit.startswith(st)
StartsWith(lit, st) == Len(st) <= Len(lit) /\ SubSeq(lit, 1, Len(st)) = st

\* returns the parser and the completed flag
_read_nonstring_char(p, c) ==
    IF p.token_type = "number"
    THEN [p |-> IF InChars(c, <<"0", "1", "2", "3", "4", "5", "6", "7", "8", "9",
                                 "+", "-", ".", "e", "E">>)
                THEN [p EXCEPT !.partial_token = Append(@, c)]
                ELSE p,
          completed |-> TRUE]
    ELSE IF p.token_type = "literal"
    THEN LET p1 == [p EXCEPT !.partial_token = Append(@, c)]
             st == p1.partial_token
         IN  IF st \in Literals THEN [p |-> p1, completed |-> TRUE]
             ELSE IF ~\E lit \in Literals : StartsWith(lit, st)
             THEN [p |-> Raise(p1, "MalformedJSON"), completed |-> FALSE]
             ELSE [p |-> p1, completed |-> TRUE]
    ELSE [p |-> p, completed |-> FALSE]

LiteralValue(value) ==
    IF value = <<"t", "r", "u", "e">> THEN PyBool(TRUE)
    ELSE IF value = <<"f", "a", "l", "s", "e">> THEN PyBool(FALSE)
    ELSE PyNone

\* self._commit_value(val), then the token is reset and True returned; p1 is
\* the parser after the _commit_value call
Committed(p1) ==
    IF p1.exc # "none" THEN [p |-> p1, ok |-> FALSE]
    ELSE [p |-> [p1 EXCEPT !.token_type = "None", !.partial_token = <<>>], ok |-> TRUE]

\* the try block of the number branch; val is the outcome of int() or float()
CommitNumber(p, val) ==
    IF val = ValueError THEN [p |-> p, ok |-> FALSE]
    ELSE Committed(_commit_value(p, val))

\* a _commit_token that takes a prefix of a literal for the literal
CommitTokenPrefix(p) ==
    IF p.token_type = "number"
    THEN CommitNumber(p, IF LooksFloat(p.partial_token) THEN py_float(p.partial_token)
                         ELSE py_int(p.partial_token))
    ELSE IF p.token_type = "literal"
    THEN IF \E lit \in Literals : StartsWith(lit, p.partial_token)
         THEN Committed(_commit_value(p, LiteralValue(
                  CHOOSE lit \in Literals : StartsWith(lit, p.partial_token))))
         ELSE [p |-> p, ok |-> FALSE]
    ELSE [p |-> p, ok |-> FALSE]

\* returns the parser and the bool result
_commit_token(p) ==
    IF p.token_type = "number"
    THEN CommitNumber(p, IF LooksFloat(p.partial_token) THEN py_float(p.partial_token)
                         ELSE py_int(p.partial_token))
    ELSE IF p.token_type = "literal"
    THEN IF p.partial_token \in Literals
         THEN Committed(_commit_value(p, LiteralValue(p.partial_token)))
         ELSE [p |-> p, ok |-> FALSE]
    ELSE [p |-> p, ok |-> FALSE]

(***************************************************************************)
(* get(): the value tree reachable from a container, with the references   *)
(* resolved.                                                               *)
(***************************************************************************)
RECURSIVE Materialize(_, _)
Materialize(h, v) ==
    IF v.t # "ref" THEN v
    ELSE LET node == h[v.id]
         IN  IF node.kind = "dict"
             THEN [t |-> "dict",
                   items |-> [j \in 1..Len(node.items) |->
                                [k |-> node.items[j].k,
                                 v |-> Materialize(h, node.items[j].v)]]]
             ELSE [t |-> "list",
                   items |-> [j \in 1..Len(node.items) |-> Materialize(h, node.items[j])]]

\* a get() that returns the container of the top frame, not the bottom one
GetTopFrame(p) ==
    IF p.root # PyNone /\ Len(p.stack) = 0 THEN Materialize(p.heap, p.root)
    ELSE IF Len(p.stack) = 0 THEN PyNone
    ELSE Materialize(p.heap, PyRef(Top(p).container))

get(p) ==
    IF p.root # PyNone /\ Len(p.stack) = 0 THEN Materialize(p.heap, p.root)
    ELSE IF Len(p.stack) = 0 THEN PyNone
    ELSE Materialize(p.heap, PyRef(p.stack[1].container))


(***************************************************************************)
(* _parse: the scan loop from index i, then the end-of-chunk commit.       *)
(* A raise leaves the parser as it is at that moment (exc set); last_index *)
(* is only stored when the loop ends normally.                             *)
(***************************************************************************)
Structural(p, c) ==
    IF c = "{" THEN _start_object(p)
    ELSE IF c = "[" THEN _start_array(p)
    ELSE IF c = "}" THEN _end_object(p)
    ELSE IF c = "]" THEN _end_array(p)
    ELSE IF c = ":" THEN _dict_colon(p)
    ELSE _got_comma(p)

\* the two statements after the loop: the partial string, then the partial
\* number or literal
PartialString(p) ==
    IF p.token_type = "string" THEN _commit_partial_value(p, PyStr(p.partial_token))
    ELSE p

PartialToken(p) ==
    IF p.exc # "none" THEN p
    ELSE IF p.token_type # "None" /\ p.token_type # "string"
    THEN _commit_partial_value(p, PyStr(p.partial_token))
    ELSE p

ParseEnd(p, i) == PartialToken(PartialString([p EXCEPT !.last_index = i]))

RECURSIVE ParseLoop(_, _)

\* the loop goes on at index i unless the call that gave p raised
Continue(p, i) == IF p.exc # "none" THEN p ELSE ParseLoop(p, i)

\* a structural character branch that skips the character when the pending
\* token cannot be committed, instead of raising
StructuralCharSkips(r, current_char, i) ==
    IF r.p.exc # "none" THEN r.p
    ELSE IF ~r.ok THEN ParseLoop(r.p, i + 1)
    ELSE Continue(Structural(r.p, current_char), i + 1)

\* the branch of a structural character at index i; r is the outcome of the
\* _commit_token call (True when there was no token to commit)
StructuralChar(r, current_char, i) ==
    IF r.p.exc # "none" THEN r.p
    ELSE IF ~r.ok THEN Raise(r.p, "MalformedJSON")
    ELSE Continue(Structural(r.p, current_char), i + 1)

\* the closing quote was read: the string is committed and the token type
\* reset; p1 is the parser after the _commit_value call
StringCommitted(p1, i) ==
    IF p1.exc # "none" THEN p1
    ELSE ParseLoop([p1 EXCEPT !.token_type = "None"], i)

\* the branch of the string state; r is the outcome of _read_string
StringChars(r) ==
    IF r.p.exc # "none" THEN r.p
    ELSE IF r.completed
    THEN StringCommitted(_commit_value(r.p, PyStr(r.p.partial_token)), r.i)
    ELSE ParseLoop(r.p, r.i)

\* the branch of a number or literal character at index i; r is the outcome
\* of _read_nonstring_char
NonStringChar(r, i) ==
    IF r.p.exc # "none" THEN r.p
    ELSE IF ~r.completed THEN ParseEnd(r.p, i)
    ELSE ParseLoop(r.p, i + 1)

ParseLoop(p, i0) ==
    IF ~(i0 < Len(p.buffer)) THEN ParseEnd(p, i0)
    ELSE
    LET i == _find_non_whitespace_index(p.buffer, i0)
    IN  IF i >= Len(p.buffer) THEN ParseEnd(p, i)
        ELSE
        LET current_char == p.buffer[i + 1]
        IN  IF InChars(current_char, <<"{", "[", "}", "]", ":", ",">>)
            THEN StructuralChar(IF p.token_type # "None" THEN _commit_token(p)
                                ELSE [p |-> p, ok |-> TRUE],
                                current_char, i)
            ELSE IF p.token_type = "string"
            THEN StringChars(_read_string(p, i))
            ELSE IF current_char = "\""
            THEN ParseLoop([p EXCEPT !.token_type = "string", !.partial_token = <<>>], i + 1)
            ELSE IF p.token_type = "None"
            THEN IF InChars(current_char,
                            <<"-", "0", "1", "2", "3", "4", "5", "6", "7", "8", "9">>)
                 THEN ParseLoop([p EXCEPT !.token_type = "number", !.partial_token = <<>>], i)
                 ELSE IF InChars(current_char, <<"t", "f", "n">>)
                 THEN ParseLoop([p EXCEPT !.token_type = "literal", !.partial_token = <<>>], i)
                 ELSE Raise(p, "MalformedJSON")
            ELSE NonStringChar(_read_nonstring_char(p, current_char), i)

_parse(p) == ParseLoop(p, p.last_index)

\* one iteration of the while loop of _parse from index i0: the parser and
\* the index the next iteration starts with; done when the loop is left (its
\* condition is false, a break, or a raise)
LoopDone(p, i) == [p |-> p, i |-> i, done |-> TRUE]
LoopNext(p, i) == [p |-> p, i |-> i, done |-> p.exc # "none"]
LoopBody(p, i0) ==
    IF ~(i0 < Len(p.buffer)) THEN LoopDone(p, i0)
    ELSE
    LET i == _find_non_whitespace_index(p.buffer, i0)
    IN  IF i >= Len(p.buffer) THEN LoopDone(p, i)
        ELSE
        LET current_char == p.buffer[i + 1]
        IN  IF InChars(current_char, <<"{", "[", "}", "]", ":", ",">>)
            THEN LET r == IF p.token_type # "None" THEN _commit_token(p)
                          ELSE [p |-> p, ok |-> TRUE]
                 IN  IF r.p.exc # "none" THEN LoopDone(r.p, i)
                     ELSE IF ~r.ok THEN LoopDone(Raise(r.p, "MalformedJSON"), i)
                     ELSE LoopNext(Structural(r.p, current_char), i + 1)
            ELSE IF p.token_type = "string"
            THEN LET r == _read_string(p, i)
                     p1 == _commit_value(r.p, PyStr(r.p.partial_token))
                 IN  IF r.p.exc # "none" THEN LoopDone(r.p, r.i)
                     ELSE IF ~r.completed THEN LoopNext(r.p, r.i)
                     ELSE IF p1.exc # "none" THEN LoopDone(p1, r.i)
                     ELSE LoopNext([p1 EXCEPT !.token_type = "None"], r.i)
            ELSE IF current_char = "\""
            THEN LoopNext([p EXCEPT !.token_type = "string", !.partial_token = <<>>], i + 1)
            ELSE IF p.token_type = "None"
            THEN IF InChars(current_char,
                            <<"-", "0", "1", "2", "3", "4", "5", "6", "7", "8", "9">>)
                 THEN LoopNext([p EXCEPT !.token_type = "number", !.partial_token = <<>>], i)
                 ELSE IF InChars(current_char, <<"t", "f", "n">>)
                 THEN LoopNext([p EXCEPT !.token_type = "literal", !.partial_token = <<>>], i)
                 ELSE LoopDone(Raise(p, "MalformedJSON"), i)
            ELSE LET r == _read_nonstring_char(p, current_char)
                 IN  IF r.p.exc # "none" \/ ~r.completed THEN LoopDone(r.p, i)
                     ELSE LoopNext(r.p, i + 1)

\* consume: a MalformedJSON (or PartialJSON) raised inside is re-raised as
\* StreamParserJSONDecodeError; any other exception passes through
consume(p, json_str) ==
    [_parse([p EXCEPT !.buffer = @ \o json_str, !.exc = "none"])
        EXCEPT !.exc = IF @ = "MalformedJSON" THEN "StreamParserJSONDecodeError" ELSE @]

\* __init__
NewParser ==
    [buffer |-> <<>>, stack |-> <<>>, root |-> PyNone, last_index |-> 0,
     partial_token |-> <<>>, token_type |-> "None", heap |-> <<>>, exc |-> "none"]

\* the parser object of the current state
Self ==
    [buffer |-> buffer, stack |-> stack, root |-> root, last_index |-> last_index,
     partial_token |-> partial_token, token_type |-> token_type, heap |-> heap,
     exc |-> "none"]


(***************************************************************************)
(* stack_stream_parser.StreamJsonParser, the variant that keeps its frames *)
(* in Container objects and marks a string in progress by in_string.  Its  *)
(* object has the fields of the parser above and in_string; a Container is *)
(* the Frame record, is_value_partial standing for last_value_partial.     *)
(* The methods whose statements are those of stream_parser.py (the         *)
(* whitespace scan, _read_string, _start_object, _dict_colon, _end_object, *)
(* _end_array, _got_comma, _read_nonstring_char, _commit_token,            *)
(* _commit_value, _commit_partial_value, get) are the operators above; the *)
(* methods that differ follow.                                             *)
(***************************************************************************)
\* self.stack[-1].state = ...: the parent Container keeps its last_key and
\* its last_value_partial
Stack_start_array(p) ==
    LET arr == NewId(p)
        p1 == Alloc(p, NewList)
    IN  IF Len(p.stack) = 0
        THEN IF p.root # PyNone
             THEN Raise(p, "MalformedJSON")
             ELSE Push(p1, Frame(arr, ARRAY_WAITING_VALUE, PyNone, FALSE))
        ELSE LET f == Top(p)
                 is_an_obj == IsDict(p, f.container)
                 p2 == IF is_an_obj
                       THEN SetItem(p1, f.container, f.last_key, PyRef(arr))
                       ELSE ListAppend(p1, f.container, PyRef(arr))
                 p3 == SetTop(p2, Frame(f.container,
                                        IF is_an_obj THEN OBJECT_WAITING_COMMA
                                                     ELSE ARRAY_WAITING_COMMA,
                                        f.last_key, f.is_value_partial))
             IN  IF f.state \notin {OBJECT_WAITING_VALUE, ARRAY_WAITING_VALUE}
                 THEN Raise(p, "MalformedJSON")
                 ELSE Push(p3, Frame(arr, ARRAY_WAITING_VALUE, PyNone, FALSE))

Stack_start_string(p) ==
    [p EXCEPT !.in_string = TRUE, !.token_type = "string", !.partial_token = <<>>]

\* token_type is not reset when _commit_value raises; p1 is the parser after
\* the _commit_value call
Stack_StringEnded(p1) ==
    IF p1.exc # "none" THEN p1 ELSE [p1 EXCEPT !.token_type = "None"]

Stack_end_string(p) ==
    Stack_StringEnded(_commit_value([p EXCEPT !.in_string = FALSE], PyStr(p.partial_token)))

Stack_Structural(p, c) ==
    IF c = "{" THEN _start_object(p)
    ELSE IF c = "[" THEN Stack_start_array(p)
    ELSE IF c = "}" THEN _end_object(p)
    ELSE IF c = "]" THEN _end_array(p)
    ELSE IF c = ":" THEN _dict_colon(p)
    ELSE _got_comma(p)

\* the two statements after the loop
Stack_PartialString(p) ==
    IF p.in_string THEN _commit_partial_value(p, PyStr(p.partial_token))
    ELSE p

Stack_PartialToken(p) ==
    IF p.exc # "none" THEN p
    ELSE IF p.token_type # "None" /\ p.token_type # "string"
    THEN _commit_partial_value(p, PyStr(p.partial_token))
    ELSE p

Stack_ParseEnd(p, i) ==
    Stack_PartialToken(Stack_PartialString([p EXCEPT !.last_index = i]))

RECURSIVE Stack_ParseLoop(_, _)

Stack_Continue(p, i) == IF p.exc # "none" THEN p ELSE Stack_ParseLoop(p, i)

\* r is the outcome of the _commit_token call (True when there was no token)
Stack_StructuralChar(r, current_char, i) ==
    IF r.p.exc # "none" THEN r.p
    ELSE IF ~r.ok THEN Raise(r.p, "MalformedJSON")
    ELSE Stack_Continue(Stack_Structural(r.p, current_char), i + 1)

\* r is the outcome of _read_string
Stack_StringChars(r) ==
    IF r.p.exc # "none" THEN r.p
    ELSE IF r.completed THEN Stack_Continue(Stack_end_string(r.p), r.i)
    ELSE Stack_ParseLoop(r.p, r.i)

\* r is the outcome of _read_nonstring_char
Stack_NonStringChar(r, i) ==
    IF r.p.exc # "none" THEN r.p
    ELSE IF ~r.completed THEN Stack_ParseEnd(r.p, i)
    ELSE Stack_ParseLoop(r.p, i + 1)

Stack_ParseLoop(p, i0) ==
    IF ~(i0 < Len(p.buffer)) THEN Stack_ParseEnd(p, i0)
    ELSE
    LET i == _find_non_whitespace_index(p.buffer, i0)
    IN  IF i >= Len(p.buffer) THEN Stack_ParseEnd(p, i)
        ELSE
        LET current_char == p.buffer[i + 1]
        IN  IF InChars(current_char, <<"{", "[", "}", "]", ":", ",">>)
            THEN Stack_StructuralChar(IF p.token_type # "None" THEN _commit_token(p)
                                      ELSE [p |-> p, ok |-> TRUE],
                                      current_char, i)
            ELSE IF p.in_string
            THEN Stack_StringChars(_read_string(p, i))
            ELSE IF current_char = "\""
            THEN Stack_ParseLoop(Stack_start_string(p), i + 1)
            ELSE IF p.token_type = "None"
            THEN IF InChars(current_char,
                            <<"-", "0", "1", "2", "3", "4", "5", "6", "7", "8", "9">>)
                 THEN Stack_ParseLoop([p EXCEPT !.token_type = "number",
                                                !.partial_token = <<>>], i)
                 ELSE IF InChars(current_char, <<"t", "f", "n">>)
                 THEN Stack_ParseLoop([p EXCEPT !.token_type = "literal",
                                                !.partial_token = <<>>], i)
                 ELSE Raise(p, "MalformedJSON")
            ELSE Stack_NonStringChar(_read_nonstring_char(p, current_char), i)

Stack_parse(p) == Stack_ParseLoop(p, p.last_index)

Stack_consume(p, json_str) ==
    [Stack_parse([p EXCEPT !.buffer = @ \o json_str, !.exc = "none"])
        EXCEPT !.exc = IF @ = "MalformedJSON" THEN "StreamParserJSONDecodeError" ELSE @]

\* __init__ (string_delim, unicode_esc, esc_count and partial_key are never
\* read)
Stack_NewParser ==
    [buffer |-> <<>>, stack |-> <<>>, root |-> PyNone, last_index |-> 0,
     in_string |-> FALSE, partial_token |-> <<>>, token_type |-> "None",
     heap |-> <<>>, exc |-> "none"]


(***************************************************************************)
(* The texts a caller delivers.  Each is cut into consecutive chunks in    *)
(* every possible way by the Consume action.  The curated texts are the    *)
(* scenarios of the specification and of tests/test_stream_parser.py; the  *)
(* free texts are all the texts of at most MaxFree characters over         *)
(* FreeAlphabet.                                                           *)
(***************************************************************************)
\* {"foo": "bar"}
DocFooBar ==
    <<"{", "\"", "f", "o", "o", "\"", ":", " ", "\"", "b", "a", "r", "\"", "}">>
\* {"key: "val
DocPartialKey ==
    <<"{", "\"", "k", "e", "y", ":", " ", "\"", "v", "a", "l">>
\* {"key": "v"}
DocKeyV ==
    <<"{", "\"", "k", "e", "y", "\"", ":", " ", "\"", "v", "\"", "}">>
\* [1, "s", true, null, 3.14, -42]
DocMixedArray ==
    <<"[", "1", ",", " ", "\"", "s", "\"", ",", " ", "t", "r", "u", "e", ",", " ", "n", "u", "l", "l", ",", " ", "3", ".", "1", "4", ",", " ", "-", "4", "2", "]">>
\* {"outer": {"inner": "val"}}
DocNested ==
    <<"{", "\"", "o", "u", "t", "e", "r", "\"", ":", " ", "{", "\"", "i", "n", "n", "e", "r", "\"", ":", " ", "\"", "v", "a", "l", "\"", "}", "}">>
\* ["ab", 12, true]
DocByteAtATime ==
    <<"[", "\"", "a", "b", "\"", ",", " ", "1", "2", ",", " ", "t", "r", "u", "e", "]">>
\* {"a": "b","new": 1}
DocSecondKey ==
    <<"{", "\"", "a", "\"", ":", " ", "\"", "b", "\"", ",", "\"", "n", "e", "w", "\"", ":", " ", "1", "}">>
\* "abc"
DocRootString ==
    <<"\"", "a", "b", "c", "\"">>
\* "a\
DocRootStringEscape ==
    <<"\"", "a", "\\">>
\* 123
DocRootNumber ==
    <<"1", "2", "3">>
\*  true
DocRootLiteral ==
    <<" ", "t", "r", "u", "e">>
\* {}{}
DocTwoObjects ==
    <<"{", "}", "{", "}">>
\* [][]
DocTwoArrays ==
    <<"[", "]", "[", "]">>
\* {} []
DocObjectArray ==
    <<"{", "}", " ", "[", "]">>
\* []"a\"
DocRootThenString ==
    <<"[", "]", "\"", "a", "\\", "\"">>
\* [] 1,
DocRootThenNumber ==
    <<"[", "]", " ", "1", ",">>
\* {}\nnull
DocRootThenLiteral ==
    <<"{", "}", "\n", "n", "u", "l", "l">>
\* [1, 2]]
DocRootThenCloser ==
    <<"[", "1", ",", " ", "2", "]", "]">>
\* [1] \t\r\n 
DocRootThenSpace ==
    <<"[", "1", "]", " ", "\t", "\r", "\n", " ">>
\* {]
DocBraceBracket ==
    <<"{", "]">>
\* [}
DocBracketBrace ==
    <<"[", "}">>
\* [1,]
DocTrailingCommaArray ==
    <<"[", "1", ",", "]">>
\* {"a":1,}
DocTrailingCommaObject ==
    <<"{", "\"", "a", "\"", ":", "1", ",", "}">>
\* [,]
DocEmptyElement ==
    <<"[", ",", "]">>
\* [1, , 2]
DocMissingElement ==
    <<"[", "1", ",", " ", ",", " ", "2", "]">>
\* {"a"}
DocKeyNoValue ==
    <<"{", "\"", "a", "\"", "}">>
\* {"a":}
DocColonNoValue ==
    <<"{", "\"", "a", "\"", ":", "}">>
\* ["a\"b", "\\", "\n"]
DocEscapes ==
    <<"[", "\"", "a", "\\", "\"", "b", "\"", ",", " ", "\"", "\\", "\\", "\"", ",", " ", "\"", "\\", "n", "\"", "]">>
\* {"k": "\u0041"}
DocUnicodeEscape ==
    <<"{", "\"", "k", "\"", ":", " ", "\"", "\\", "u", "0", "0", "4", "1", "\"", "}">>
\* ["a,b", "{x}"]
DocStringDelims ==
    <<"[", "\"", "a", ",", "b", "\"", ",", " ", "\"", "{", "x", "}", "\"", "]">>
\* [",a"]
DocStringLeadingComma ==
    <<"[", "\"", ",", "a", "\"", "]">>
\* [" a", "b c"]
DocStringSpaces ==
    <<"[", "\"", " ", "a", "\"", ",", " ", "\"", "b", " ", "c", "\"", "]">>
\* {" k": 1}
DocSpaceKey ==
    <<"{", "\"", " ", "k", "\"", ":", " ", "1", "}">>
\* [1 2]
DocTwoRuns ==
    <<"[", "1", " ", "2", "]">>
\* [1x]
DocNumberJunk ==
    <<"[", "1", "x", "]">>
\* [1"a"]
DocNumberQuote ==
    <<"[", "1", "\"", "a", "\"", "]">>
\* {"key": 12.}
DocPartialFloat ==
    <<"{", "\"", "k", "e", "y", "\"", ":", " ", "1", "2", ".", "}">>
\* {"key": 1.2e}
DocPartialExp ==
    <<"{", "\"", "k", "e", "y", "\"", ":", " ", "1", ".", "2", "e", "}">>
\* {"key": 12..34}
DocBadNumber ==
    <<"{", "\"", "k", "e", "y", "\"", ":", " ", "1", "2", ".", ".", "3", "4", "}">>
\* {1:2, true:"x"}
DocNumberKey ==
    <<"{", "1", ":", "2", ",", " ", "t", "r", "u", "e", ":", "\"", "x", "\"", "}">>
\* {null:1}
DocNullKey ==
    <<"{", "n", "u", "l", "l", ":", "1", "}">>
\* {[]:1}
DocArrayKey ==
    <<"{", "[", "]", ":", "1", "}">>
\* { "a" : [ 1 , { } ] }
DocSpaced ==
    <<"{", " ", "\"", "a", "\"", " ", ":", " ", "[", " ", "1", " ", ",", " ", "{", " ", "}", " ", "]", " ", "}">>
\* [[1, 2], [3], []]
DocNestedArrays ==
    <<"[", "[", "1", ",", " ", "2", "]", ",", " ", "[", "3", "]", ",", " ", "[", "]", "]">>
\* [{"a": 1}, {"b": 2}, {}]
DocNestedObjects ==
    <<"[", "{", "\"", "a", "\"", ":", " ", "1", "}", ",", " ", "{", "\"", "b", "\"", ":", " ", "2", "}", ",", " ", "{", "}", "]">>
\* {"a": 1, "a": "z"}
DocDuplicateKey ==
    <<"{", "\"", "a", "\"", ":", " ", "1", ",", " ", "\"", "a", "\"", ":", " ", "\"", "z", "\"", "}">>
\* [tru, nul]
DocBadLiteral ==
    <<"[", "t", "r", "u", ",", " ", "n", "u", "l", "]">>
\* [false,null,true]
DocLiterals ==
    <<"[", "f", "a", "l", "s", "e", ",", "n", "u", "l", "l", ",", "t", "r", "u", "e", "]">>
\* {1":2}
DocResume ==
    <<"{", "1", "\"", ":", "2", "}">>
\* [-1.5e-1, 1E+2, 0.0, -0]
DocFloats ==
    <<"[", "-", "1", ".", "5", "e", "-", "1", ",", " ", "1", "E", "+", "2", ",", " ", "0", ".", "0", ",", " ", "-", "0", "]">>
\* [1e"a"]
DocBadNumberQuote ==
    <<"[", "1", "e", "\"", "a", "\"", "]">>
\* {"key": --123}
DocDoubleMinus ==
    <<"{", "\"", "k", "e", "y", "\"", ":", " ", "-", "-", "1", "2", "3", "}">>
\* [12ee4, 1]
DocDoubleExp ==
    <<"[", "1", "2", "e", "e", "4", ",", " ", "1", "]">>
\* [tx]
DocLiteralJunk ==
    <<"[", "t", "x", "]">>
\* [truee]
DocLiteralLong ==
    <<"[", "t", "r", "u", "e", "e", "]">>
\* [[], 1]
DocClosedThenValue ==
    <<"[", "[", "]", ",", " ", "1", "]">>
CuratedDocs ==
    {DocClosedThenValue,
     DocLiteralLong,
     DocLiteralJunk,
     DocBadNumberQuote,
     DocDoubleMinus,
     DocDoubleExp,
     DocFooBar,
     DocPartialKey,
     DocKeyV,
     DocMixedArray,
     DocNested,
     DocByteAtATime,
     DocSecondKey,
     DocRootString,
     DocRootStringEscape,
     DocRootNumber,
     DocRootLiteral,
     DocTwoObjects,
     DocTwoArrays,
     DocObjectArray,
     DocRootThenString,
     DocRootThenNumber,
     DocRootThenLiteral,
     DocRootThenCloser,
     DocRootThenSpace,
     DocBraceBracket,
     DocBracketBrace,
     DocTrailingCommaArray,
     DocTrailingCommaObject,
     DocEmptyElement,
     DocMissingElement,
     DocKeyNoValue,
     DocColonNoValue,
     DocEscapes,
     DocUnicodeEscape,
     DocStringDelims,
     DocStringLeadingComma,
     DocStringSpaces,
     DocSpaceKey,
     DocTwoRuns,
     DocNumberJunk,
     DocNumberQuote,
     DocPartialFloat,
     DocPartialExp,
     DocBadNumber,
     DocNumberKey,
     DocNullKey,
     DocArrayKey,
     DocSpaced,
     DocNestedArrays,
     DocNestedObjects,
     DocDuplicateKey,
     DocBadLiteral,
     DocLiterals,
     DocResume,
     DocFloats}

FreeAlphabet == {"[", "]", "{", "}", "\"", ":", ",", "1", "a", " ", "\\"}
FreeDocs == UNION {[1..n -> FreeAlphabet] : n \in 0..MaxFree}
Docs == CuratedDocs \cup FreeDocs

\* the caller has not called get() since its last consume call
NoSnapshot == [t |-> "NoSnapshot"]

Init ==
    /\ doc \in Docs
    /\ pos = 0
    /\ outcome = "none"
    /\ empties = 0
    /\ snapshot = NoSnapshot
    /\ buffer = NewParser.buffer
    /\ stack = NewParser.stack
    /\ root = NewParser.root
    /\ last_index = NewParser.last_index
    /\ partial_token = NewParser.partial_token
    /\ token_type = NewParser.token_type
    /\ heap = NewParser.heap
    /\ stack_parser = Stack_NewParser

\* one call parser.consume(chunk); the parser keeps whatever the call had
\* done when it raised
Call(chunk) ==
    \E p \in {consume(Self, chunk)} :
        /\ buffer' = p.buffer
        /\ stack' = p.stack
        /\ root' = p.root
        /\ last_index' = p.last_index
        /\ partial_token' = p.partial_token
        /\ token_type' = p.token_type
        /\ heap' = p.heap
        /\ outcome' = IF p.exc = "none" THEN "ok" ELSE p.exc
        /\ snapshot' = NoSnapshot
        /\ stack_parser' = Stack_consume(stack_parser, chunk)

\* consume(chunk) with the next n >= 1 characters of the text
Consume ==
    \E n \in 1..(Len(doc) - pos) :
        /\ Call(SubSeq(doc, pos + 1, pos + n))
        /\ pos' = pos + n
        /\ UNCHANGED <<doc, empties>>

\* consume("")
ConsumeEmpty ==
    /\ empties < MaxEmpty
    /\ Call(<<>>)
    /\ empties' = empties + 1
    /\ UNCHANGED <<doc, pos>>

\* a get() that hands the token in progress over and forgets it
GetTakesToken ==
    /\ snapshot' = get(Self)
    /\ partial_token' = <<>>
    /\ token_type' = "None"
    /\ UNCHANGED <<buffer, stack, root, last_index, heap, doc, pos, outcome, empties,
                   stack_parser>>

\* get()
Get ==
    /\ snapshot' = get(Self)
    /\ UNCHANGED <<parser_vars, doc, pos, outcome, empties, stack_parser>>

Next == Consume \/ ConsumeEmpty \/ Get

Spec == Init /\ [][Next]_vars


(***************************************************************************)
(* Reference notions the properties are stated against.                    *)
(*                                                                         *)
(* RefParse is a batch parse of a complete text by the RFC 8259 grammar    *)
(* (Invalid when the text is not a JSON document).  Objects keep the       *)
(* first-insertion order with the last value of a duplicate key, a number  *)
(* is an int when it has neither fraction nor exponent, and string bodies  *)
(* are kept undecoded, since the specification leaves escape decoding      *)
(* open.                                                                   *)
(***************************************************************************)
Invalid == [t |-> "Invalid"]
RefFail == [ok |-> FALSE, v |-> Invalid, k |-> 0]
RefOk(v, k) == [ok |-> TRUE, v |-> v, k |-> k]
At(text, k) == IF k >= 1 /\ k <= Len(text) THEN text[k] ELSE "EOF"

RECURSIVE RefWs(_, _)
RefWs(text, k) == IF IsWhitespace(At(text, k)) THEN RefWs(text, k + 1) ELSE k

IsHex(c) == IsDigit(c) \/ c \in {"a", "b", "c", "d", "e", "f", "A", "B", "C", "D", "E", "F"}

RECURSIVE RefStringEnd(_, _)
\* position of the closing quote of the string whose body starts at k, 0 if none
RefStringEnd(text, k) ==
    LET c == At(text, k)
    IN  IF c = "EOF" \/ c \in {"\t", "\n", "\r"} THEN 0
        ELSE IF c = "\"" THEN k
        ELSE IF c = "\\"
        THEN IF At(text, k + 1) \in {"\"", "\\", "/", "b", "f", "n", "r", "t"}
             THEN RefStringEnd(text, k + 2)
             ELSE IF At(text, k + 1) = "u" /\ \A j \in 2..5 : IsHex(At(text, k + j))
             THEN RefStringEnd(text, k + 6)
             ELSE 0
        ELSE RefStringEnd(text, k + 1)

RefString(text, k) ==
    LET e == RefStringEnd(text, k + 1)
    IN  IF e = 0 THEN RefFail ELSE RefOk(PyStr(SubSeq(text, k + 1, e - 1)), e + 1)

RefNumber(text, k) ==
    LET s == IF At(text, k) = "-" THEN 1 ELSE 0
        ni == IF At(text, k + s) = "0" THEN 1 ELSE DigitRun(text, k + s)
        dotAt == k + s + ni
        nf == IF At(text, dotAt) = "." THEN DigitRun(text, dotAt + 1) ELSE 0
        expAt == dotAt + (IF nf > 0 THEN 1 + nf ELSE 0)
        hasExp == At(text, expAt) \in {"e", "E"}
        es == IF hasExp THEN SignLen(text, expAt + 1) ELSE 0
        ne == IF hasExp THEN DigitRun(text, expAt + 1 + es) ELSE 0
        endAt == expAt + (IF ne > 0 THEN 1 + es + ne ELSE 0)
        tok == SubSeq(text, k, endAt - 1)
    IN  IF ni = 0 THEN RefFail
        ELSE RefOk(IF nf > 0 \/ ne > 0 THEN py_float(tok) ELSE py_int(tok), endAt)

RefLiteral(text, k) ==
    IF \E lit \in Literals : k + Len(lit) - 1 <= Len(text) /\ SubSeq(text, k, k + Len(lit) - 1) = lit
    THEN LET lit == CHOOSE l \in Literals :
                        k + Len(l) - 1 <= Len(text) /\ SubSeq(text, k, k + Len(l) - 1) = l
         IN  RefOk(LiteralValue(lit), k + Len(lit))
    ELSE RefFail

RECURSIVE RefValue(_, _), RefElements(_, _, _), RefMembers(_, _, _)
\* the value that starts at position k (no leading whitespace)
RefValue(text, k) ==
    LET c == At(text, k)
        k1 == RefWs(text, k + 1)
    IN  IF c = "[" THEN IF At(text, k1) = "]" THEN RefOk([t |-> "list", items |-> <<>>], k1 + 1)
                        ELSE RefElements(text, k1, <<>>)
        ELSE IF c = "{" THEN IF At(text, k1) = "}" THEN RefOk([t |-> "dict", items |-> <<>>], k1 + 1)
                             ELSE RefMembers(text, k1, <<>>)
        ELSE IF c = "\"" THEN RefString(text, k)
        ELSE IF c = "-" \/ IsDigit(c) THEN RefNumber(text, k)
        ELSE RefLiteral(text, k)

RefElements(text, k, acc) ==
    LET r == RefValue(text, k)
        k1 == RefWs(text, r.k)
    IN  IF ~r.ok THEN RefFail
        ELSE IF At(text, k1) = "," THEN RefElements(text, RefWs(text, k1 + 1), Append(acc, r.v))
        ELSE IF At(text, k1) = "]" THEN RefOk([t |-> "list", items |-> Append(acc, r.v)], k1 + 1)
        ELSE RefFail

RefMembers(text, k, acc) ==
    LET key == IF At(text, k) = "\"" THEN RefString(text, k) ELSE RefFail
        k1 == RefWs(text, key.k)
        r == RefValue(text, RefWs(text, k1 + 1))
        k2 == RefWs(text, r.k)
        acc1 == DictSet(acc, key.v, r.v)
    IN  IF ~key.ok \/ At(text, k1) # ":" THEN RefFail
        ELSE IF ~r.ok THEN RefFail
        ELSE IF At(text, k2) = "," THEN RefMembers(text, RefWs(text, k2 + 1), acc1)
        ELSE IF At(text, k2) = "}" THEN RefOk([t |-> "dict", items |-> acc1], k2 + 1)
        ELSE RefFail

RefParse(text) ==
    LET r == RefValue(text, RefWs(text, 1))
    IN  IF r.ok /\ RefWs(text, r.k) > Len(text) THEN r.v ELSE Invalid

\* a well-formed JSON document whose root is an object or an array
ValidDoc(text) == RefParse(text).t \in {"dict", "list"}

(***************************************************************************)
(* The string tokens of a text: a quote outside a string opens one, an     *)
(* unescaped quote inside closes it, a backslash escapes the next          *)
(* character.  ScanState(text, k) is the lexical position after the first  *)
(* k characters.                                                           *)
(***************************************************************************)
RECURSIVE ScanState(_, _)
ScanState(text, k) ==
    IF k = 0 THEN [in |-> FALSE, esc |-> FALSE, start |-> 0]
    ELSE LET st == ScanState(text, k - 1)
             c == text[k]
         IN  IF ~st.in THEN IF c = "\"" THEN [in |-> TRUE, esc |-> FALSE, start |-> k]
                            ELSE st
             ELSE IF st.esc THEN [st EXCEPT !.esc = FALSE]
             ELSE IF c = "\\" THEN [st EXCEPT !.esc = TRUE]
             ELSE IF c = "\"" THEN [in |-> FALSE, esc |-> FALSE, start |-> 0]
             ELSE st

\* character k of text lies outside every string token
Outside(text, k) == ~ScanState(text, k - 1).in /\ ~ScanState(text, k).in

\* the text ends inside a string token; OpenStringBody is its body so far
InOpenString(text) == ScanState(text, Len(text)).in
OpenStringBody(text) == SubSeq(text, ScanState(text, Len(text)).start + 1, Len(text))

\* the bodies of the string tokens of text whose closing quote is in text
TerminatedBodies(text) ==
    {SubSeq(text, ScanState(text, k - 1).start + 1, k - 1) :
        k \in {j \in 1..Len(text) : ScanState(text, j - 1).in /\ ~ScanState(text, j).in}}

HasNonWhitespace(text) == \E k \in 1..Len(text) : ~IsWhitespace(text[k])
FirstNonWhitespace(text) == text[_find_non_whitespace_index(text, 0) + 1]


(***************************************************************************)
(* Properties.                                                             *)
(***************************************************************************)
Malformed == "StreamParserJSONDecodeError"

\* new refines old: containers only gain members at the end, a string only
\* gains a suffix, every other value stays as it is
RECURSIVE Refines(_, _)
Refines(old, new) ==
    IF old.t = "list"
    THEN /\ new.t = "list"
         /\ Len(old.items) <= Len(new.items)
         /\ \A j \in 1..Len(old.items) : Refines(old.items[j], new.items[j])
    ELSE IF old.t = "dict"
    THEN /\ new.t = "dict"
         /\ Len(old.items) <= Len(new.items)
         /\ \A j \in 1..Len(old.items) :
                /\ old.items[j].k = new.items[j].k
                /\ Refines(old.items[j].v, new.items[j].v)
    ELSE IF old.t = "str"
    THEN new.t = "str" /\ StartsWith(new.s, old.s)
    ELSE old = new

\* the keys of all the objects of a value
RECURSIVE KeysOf(_)
KeysOf(v) ==
    IF v.t = "dict"
    THEN {v.items[j].k : j \in 1..Len(v.items)}
         \cup UNION {KeysOf(v.items[j].v) : j \in 1..Len(v.items)}
    ELSE IF v.t = "list" THEN UNION {KeysOf(v.items[j]) : j \in 1..Len(v.items)}
    ELSE {}

\* the top frame is in a value position and the value installed there is v
ValuePosition ==
    /\ stack # <<>>
    /\ Top(Self).state \in {OBJECT_WAITING_VALUE, ARRAY_WAITING_VALUE}
ExposedIs(v) ==
    LET f == Top(Self)
        items == heap[f.container].items
    IN  IF IsDict(Self, f.container)
        THEN DictHas(items, f.last_key) /\ DictGet(items, f.last_key) = v
        ELSE Len(items) > 0 /\ items[Len(items)] = v

GetKind == get(Self).t
\* the chunk a consume step delivers
Delivered == SubSeq(buffer', Len(buffer) + 1, Len(buffer'))
EndsWithCloser(text) ==
    \E k \in 1..Len(text) :
        /\ text[k] \in {"]", "}"}
        /\ \A j \in (k + 1)..Len(text) : IsWhitespace(text[j])
\* outside the strings, a comma whose next token is a closing bracket or brace
TrailingComma(text) ==
    \E i, j \in 1..Len(text) :
        /\ i < j
        /\ text[i] = ","
        /\ text[j] \in {"]", "}"}
        /\ Outside(text, i)
        /\ Outside(text, j)
        /\ \A m \in (i + 1)..(j - 1) : IsWhitespace(text[m])

\* C1: chunk-insensitivity: whatever way a valid document, or a prefix of
\* one, was cut into chunks, get() returns what it returns after the same
\* text was fed as a single chunk.
C1_ChunkInsensitive ==
    (ValidDoc(doc) /\ empties = 0 /\ outcome = "ok")
        => get(Self) = get(consume(NewParser, buffer))

\* C2: monotone growth: after each successful consume call get() refines
\* what it returned before the call: containers only gain members, an
\* exposed string only gains a suffix, nothing disappears or changes.
C2_MonotoneGrowth ==
    [][(outcome \in {"none", "ok"} /\ outcome' = "ok")
           => (get(Self) = PyNone \/ Refines(get(Self), get(Self)'))]_vars

\* C3: when a successful consume call leaves the lexer inside an
\* unterminated string in a value position, the value exposed at that
\* position is exactly the body of that string consumed so far.
C3_PartialStringBody ==
    (/\ ValidDoc(doc)
     /\ outcome = "ok"
     /\ token_type = "string"
     /\ InOpenString(buffer)
     /\ ValuePosition)
        => ExposedIs(PyStr(OpenStringBody(buffer)))

\* C4: no partial keys: at every consume return every key of every object
\* reachable from get() is the complete body of a string whose closing
\* quote has been consumed.
C4_NoPartialKeys ==
    outcome # "none"
        => \A k \in KeysOf(get(Self)) : k.t = "str" /\ k.s \in TerminatedBodies(buffer)

\* C5: prefix acceptance: no consume call raises on a prefix of a
\* well-formed document whose root is an object or array, however the
\* prefix is cut into chunks.
C5_PrefixAccepted ==
    (ValidDoc(doc) /\ empties = 0) => outcome \in {"none", "ok"}

\* C6: round trip on completion: once a complete valid document has been
\* delivered, in any chunking, get() equals the batch parse of the text.
C6_RoundTrip ==
    (ValidDoc(doc) /\ pos = Len(doc) /\ empties = 0 /\ outcome = "ok")
        => get(Self) = RefParse(doc)

\* C7: sticky failure: once a consume call has raised Malformed, every
\* later consume call raises too.
C7_StickyFailure ==
    [][outcome = Malformed => outcome' # "ok"]_vars

\* C8: top-level rule: the consume call that delivers a first
\* non-whitespace character other than '{' and '[' raises Malformed, and
\* get() exposes no scalar root.
C8_TopLevelRule ==
    [][(/\ ~HasNonWhitespace(buffer)
        /\ HasNonWhitespace(buffer')
        /\ FirstNonWhitespace(buffer') \notin {"{", "["})
           => (outcome' = Malformed /\ GetKind' \in {"None", "dict", "list"})]_vars

\* C9: no multiple roots: once root is set, a consume call that delivers a
\* non-whitespace character raises Malformed, and so does the call that
\* closes the root when anything but whitespace follows the closer in its
\* chunk.
C9_NoMultipleRoots ==
    [][/\ (root # PyNone /\ HasNonWhitespace(Delivered)) => outcome' = Malformed
       /\ (root = PyNone /\ root' # PyNone /\ ~EndsWithCloser(buffer'))
              => outcome' = Malformed]_vars

\* C10: trailing commas are rejected: the consume call that delivers a
\* closing ']' or '}' as the next token after a comma raises Malformed.
C10_TrailingCommaRejected ==
    [][(~TrailingComma(buffer) /\ TrailingComma(buffer')) => outcome' = Malformed]_vars

\* the first non-whitespace character of the chunk a consume step delivers
\* ("EOF" when there is none)
DeliveredToken == At(Delivered, _find_non_whitespace_index(Delivered, 0) + 1)
\* isinstance of the container of the top frame of the current state
TopIsDict == IsDict(Self, Top(Self).container)

\* C11: mismatched closers are rejected: a consume call that meets, outside
\* a string, a '}' while the top frame is an array, a ']' while the top
\* frame is an object, or any closer while the stack is empty, raises
\* Malformed and pops no frame: every frame of the stack is still there.
C11_MismatchedCloser ==
    [][(/\ token_type # "string"
        /\ \/ DeliveredToken = "}" /\ stack # <<>> /\ ~TopIsDict
           \/ DeliveredToken = "]" /\ stack # <<>> /\ TopIsDict
           \/ DeliveredToken \in {"}", "]"} /\ stack = <<>>)
           => (/\ outcome' = Malformed
               /\ Len(stack') >= Len(stack)
               /\ \A j \in 1..Len(stack) : stack'[j].container = stack[j].container)]_vars

\* a consume call raised at a closer met at the start of its chunk while
\* the top frame is a container of the other kind
C11_Witness ==
    /\ outcome = Malformed
    /\ token_type = "None"
    /\ stack # <<>>
    /\ last_index > 0
    /\ last_index < Len(buffer)
    /\ \/ buffer[last_index + 1] = "}" /\ ~TopIsDict
       \/ buffer[last_index + 1] = "]" /\ TopIsDict

\* C12: consume of an empty chunk is a no-op: on a parser whose last call
\* did not raise, the call returns normally and leaves every field of the
\* parser, and so the value get() returns, as it was, also while a string,
\* number or literal token is in progress.
C12_EmptyChunkNoOp ==
    [][(empties' = empties + 1 /\ outcome \in {"none", "ok"})
           => (/\ outcome' = "ok"
               /\ parser_vars' = parser_vars
               /\ get(Self)' = get(Self))]_vars

\* C13: partial numbers and literals are never exposed: when a consume call
\* returns with a number or literal token in progress, nothing provisional
\* is installed in the tree, so a frame whose is_value_partial flag is set
\* is always inside a string.
C13_NoPartialNumber ==
    (ValidDoc(doc) /\ empties = 0 /\ outcome = "ok" /\ stack # <<>>
        /\ Top(Self).is_value_partial)
        => token_type = "string"

\* int() or float() of the longest prefix of a number text that converts
\* (ValueError when no prefix does): the number read so far
RECURSIVE NumberSoFar(_, _)
NumberSoFar(text, n) ==
    IF n = 0 THEN ValueError
    ELSE LET val == IF LooksFloat(SubSeq(text, 1, n)) THEN py_float(SubSeq(text, 1, n))
                    ELSE py_int(SubSeq(text, 1, n))
         IN  IF val # ValueError THEN val ELSE NumberSoFar(text, n - 1)

\* C14: after a chunk that ends inside a number in object-value position,
\* get() exposes the pending key with the numeric value of the number read
\* so far ('{"key": 12' and '{"key": 12.' give 12, '{"key": 1.2e' gives 1.2).
C14_PartialNumberValue ==
    (/\ ValidDoc(doc) /\ empties = 0 /\ outcome = "ok"
     /\ token_type = "number"
     /\ stack # <<>>
     /\ TopIsDict
     /\ Top(Self).state = OBJECT_WAITING_VALUE
     /\ NumberSoFar(partial_token, Len(partial_token)) # ValueError)
        => LET items == heap[Top(Self).container].items
               k == Top(Self).last_key
           IN  /\ DictHas(items, k)
               /\ DictGet(items, k).t \in {"int", "float"}
               /\ PyEq(DictGet(items, k), NumberSoFar(partial_token, Len(partial_token)))

\* the characters of a number token
NumberChar(c) ==
    InChars(c, <<"0", "1", "2", "3", "4", "5", "6", "7", "8", "9", "+", "-", ".", "e", "E">>)
\* int() or float() of a number text, as _commit_token converts it
NumberValue(text) == IF LooksFloat(text) THEN py_float(text) ELSE py_int(text)

\* C15: a numeric run that does not parse as a number makes consume raise
\* Malformed when the token that terminates it (a delimiter or the quote of
\* a string) is consumed, and the run is never committed as a value.
C15_BadNumberRejected ==
    [][(/\ outcome \in {"none", "ok"}
        /\ token_type = "number"
        /\ NumberValue(partial_token) = ValueError
        /\ DeliveredToken \in {"{", "[", "}", "]", ":", ",", "\""})
           => outcome' = Malformed]_vars

\* the text with every numeric run outside the strings replaced by 0
RECURSIVE RepairNumbers(_, _, _)
RepairNumbers(text, k, in_run) ==
    IF k > Len(text) THEN <<>>
    ELSE IF ~Outside(text, k) THEN <<text[k]>> \o RepairNumbers(text, k + 1, FALSE)
    ELSE IF in_run /\ NumberChar(text[k]) THEN RepairNumbers(text, k + 1, TRUE)
    ELSE IF InChars(text[k], <<"-", "0", "1", "2", "3", "4", "5", "6", "7", "8", "9">>)
    THEN <<"0">> \o RepairNumbers(text, k + 1, TRUE)
    ELSE <<text[k]>> \o RepairNumbers(text, k + 1, FALSE)

\* a document whose only defect is a malformed number token
BadNumberDoc(text) == ~ValidDoc(text) /\ ValidDoc(RepairNumbers(text, 1, FALSE))

\* C16: consume raises no exception for a document whose number token is
\* malformed (double decimal point, double exponent, double minus sign):
\* the document is accepted without validating the number.
C16_BadNumberAccepted ==
    (BadNumberDoc(doc) /\ empties = 0) => outcome \in {"none", "ok"}

\* the number of string tokens of text, closed in text, whose body is body
BodyCount(text, body) ==
    Cardinality({k \in 1..Len(text) :
                    /\ ScanState(text, k - 1).in
                    /\ ~ScanState(text, k).in
                    /\ SubSeq(text, ScanState(text, k - 1).start + 1, k - 1) = body})

\* the top frame is an object whose pending key, a string that occurs once
\* in the input, has been read while no byte of its value has
ValueNotBegun ==
    /\ outcome = "ok"
    /\ stack # <<>>
    /\ TopIsDict
    /\ Top(Self).state \in {OBJECT_WAITING_COLON, OBJECT_WAITING_VALUE}
    /\ token_type = "None"
    /\ Top(Self).last_key.t = "str"
    /\ BodyCount(buffer, Top(Self).last_key.s) = 1

\* C17: sound view: a key whose value has not begun is absent from get():
\* after the key, or the key and its colon, have been consumed but no byte
\* of the value, the object does not contain that key.
C17_SoundView ==
    ValueNotBegun
        => ~DictHas(heap[Top(Self).container].items, Top(Self).last_key)

\* the key and its colon have been consumed, as after '{"key":'
C17_Witness ==
    /\ ValueNotBegun
    /\ Top(Self).state = OBJECT_WAITING_VALUE
    /\ buffer[Len(buffer)] = ":"

(***************************************************************************)
(* The tree a prefix of a document stands for: the batch parse of the      *)
(* longest part of the prefix that ends with an opening delimiter or with  *)
(* a value whose end has been observed, closed with the closers of the     *)
(* containers still open.                                                  *)
(***************************************************************************)
\* the closers of the containers open after the first k characters,
\* innermost first
RECURSIVE OpenClosers(_, _)
OpenClosers(text, k) ==
    IF k = 0 THEN <<>>
    ELSE LET rest == OpenClosers(text, k - 1)
         IN  IF ~Outside(text, k) THEN rest
             ELSE IF text[k] = "{" THEN <<"}">> \o rest
             ELSE IF text[k] = "[" THEN <<"]">> \o rest
             ELSE IF text[k] \in {"}", "]"} /\ rest # <<>> THEN Tail(rest)
             ELSE rest

\* the first k characters end with an opening delimiter or with a value
\* whose end has been observed in text
EndObserved(text, k) ==
    /\ ~ScanState(text, k).in
    /\ \/ Outside(text, k) /\ text[k] \in {"{", "[", "}", "]"}
       \/ ScanState(text, k - 1).in
       \/ At(text, RefWs(text, k + 1)) = ","

Closed(text, k) == SubSeq(text, 1, k) \o OpenClosers(text, k)

RECURSIVE PrefixTree(_, _)
PrefixTree(text, k) ==
    IF k = 0 THEN PyNone
    ELSE IF EndObserved(text, k) /\ ValidDoc(Closed(text, k)) THEN RefParse(Closed(text, k))
    ELSE PrefixTree(text, k - 1)

\* get() without the provisional value of the top frame
Committed_get ==
    IF stack # <<>> /\ Top(Self).is_value_partial
    THEN LET c == Top(Self).container
             items == heap[c].items
             kept == IF TopIsDict
                     THEN IF DictHas(items, Top(Self).last_key)
                          THEN [j \in 1..(Len(items) - 1) |->
                                   IF j < DictIndex(items, Top(Self).last_key)
                                   THEN items[j] ELSE items[j + 1]]
                          ELSE items
                     ELSE SubSeq(items, 1, Len(items) - 1)
         IN  get([Self EXCEPT !.heap[c].items = kept])
    ELSE get(Self)

\* no two string tokens of the text have the same body
DistinctStrings(text) ==
    \A k \in 1..Len(text) :
        (ScanState(text, k - 1).in /\ ~ScanState(text, k).in)
            => BodyCount(text, SubSeq(text, ScanState(text, k - 1).start + 1, k - 1)) = 1

\* C18: after each successful consume get() contains, in input order, every
\* container whose opening delimiter has been consumed and every value
\* whose end has been observed, and nothing else but the provisional value
\* of the token in progress.
C18_PrefixReflected ==
    (ValidDoc(doc) /\ DistinctStrings(doc) /\ empties = 0 /\ outcome = "ok")
        => Committed_get = PrefixTree(buffer, Len(buffer))

C20_StringVerbatim ==
    (/\ ValidDoc(doc) /\ empties = 0
     /\ InOpenString(buffer)
     /\ \A k \in 1..Len(OpenStringBody(buffer)) : OpenStringBody(buffer)[k] # "\\")
        => (/\ outcome = "ok"
            /\ token_type = "string"
            /\ partial_token = OpenStringBody(buffer))

\* no character of a string body of text is whitespace or one of { } [ ] : ,
NoDelimiterInStrings(text) ==
    \A k \in 1..Len(text) :
        (ScanState(text, k - 1).in /\ ScanState(text, k).in)
            => text[k] \notin {" ", "\t", "\n", "\r", "{", "}", "[", "]", ":", ","}

\* C21: inside a string a backslash escapes the next character: an escaped
\* quote or backslash never terminates the string, which ends at the first
\* unescaped quote, however the string is split across chunks: on a prefix
\* of a valid document consume has not raised, and the lexer is inside a
\* string exactly when the input consumed so far ends inside one.
C21_EscapesScanned ==
    (ValidDoc(doc) /\ NoDelimiterInStrings(doc) /\ empties = 0 /\ outcome # "none")
        => (/\ outcome = "ok"
            /\ (token_type = "string") <=> InOpenString(buffer))

\* C22: when a chunk has ended inside an unterminated object key ('{"key'),
\* a following chunk whose first non-whitespace character is a colon makes
\* consume raise Malformed.
C22_PartialKeyColon ==
    [][(/\ outcome = "ok"
        /\ token_type = "string"
        /\ InOpenString(buffer)
        /\ stack # <<>>
        /\ TopIsDict
        /\ Top(Self).state = OBJECT_WAITING_KEY
        /\ DeliveredToken = ":")
           => outcome' = Malformed]_vars

\* consume raised at a colon that came first in the chunk after an
\* unterminated key
C22_Witness ==
    /\ outcome = Malformed
    /\ token_type = "string"
    /\ stack # <<>>
    /\ TopIsDict
    /\ Top(Self).state = OBJECT_WAITING_KEY
    /\ last_index > 0
    /\ last_index < Len(buffer)
    /\ InOpenString(SubSeq(buffer, 1, last_index))
    /\ buffer[_find_non_whitespace_index(buffer, last_index) + 1] = ":"

\* every character of text is JSON whitespace (and there is at least one)
OnlyWhitespace(text) ==
    /\ text # <<>>
    /\ \A k \in 1..Len(text) : IsWhitespace(text[k])

\* C23: closure idempotence: once root is set, a consume call carrying only
\* whitespace succeeds and get() returns the same value before and after it,
\* the closed root.
C23_ClosureIdempotent ==
    [][(root # PyNone /\ outcome = "ok" /\ OnlyWhitespace(Delivered))
           => (/\ outcome' = "ok"
               /\ get(Self)' = get(Self)
               /\ get(Self) = Materialize(heap, root))]_vars

\* the document closed, whitespace followed it and get() was called
C23_Witness ==
    /\ root # PyNone
    /\ outcome = "ok"
    /\ stack = <<>>
    /\ buffer # <<>>
    /\ IsWhitespace(buffer[Len(buffer)])
    /\ EndsWithCloser(buffer)
    /\ last_index = Len(buffer)
    /\ snapshot = Materialize(heap, root)

\* C24: get() is pure: a get() call changes no parser state (buffer, resume
\* index, stack, root, partial token, token type, containers), it returns the
\* view of that unchanged state, and a second get() with no consume call in
\* between returns the same value.
C24_GetPure ==
    [][snapshot' # NoSnapshot
           => (/\ parser_vars' = parser_vars
               /\ snapshot' = get(Self)
               /\ snapshot # NoSnapshot => snapshot' = snapshot)]_vars

\* get() was called while a token was in progress inside an open container
C24_Witness ==
    /\ snapshot # NoSnapshot
    /\ snapshot = get(Self)
    /\ stack # <<>>
    /\ token_type # "None"
    /\ partial_token # <<>>

\* C25: get() returns the root when root is set and the stack is empty,
\* otherwise the container of the bottom stack frame when the stack is not
\* empty, otherwise None; a parser that has consumed nothing, or only empty
\* or whitespace input, returns None.
C25_GetResult ==
    snapshot # NoSnapshot
        => (/\ (root # PyNone /\ stack = <<>>) => snapshot = Materialize(heap, root)
            /\ stack # <<>> => snapshot = Materialize(heap, PyRef(stack[1].container))
            /\ (root = PyNone /\ stack = <<>>) => snapshot = PyNone
            /\ (\A k \in 1..Len(buffer) : IsWhitespace(buffer[k])) => snapshot = PyNone)

\* get() was called with two frames on the stack and returned the outer
\* container, which differs from the inner one
C25_Witness ==
    /\ snapshot # NoSnapshot
    /\ Len(stack) >= 2
    /\ snapshot = Materialize(heap, PyRef(stack[1].container))
    /\ snapshot # Materialize(heap, PyRef(Top(Self).container))

\* a character of a number or literal token
WordChar(c) == c \notin {"{", "}", "[", "]", ":", ",", "\"", " ", "\t", "\n", "\r", "EOF"}

\* the point after k characters of text lies between two tokens: outside a
\* string and not inside a run of number or literal characters
BetweenTokens(text, k) ==
    /\ ~ScanState(text, k).in
    /\ ~(WordChar(At(text, k)) /\ WordChar(At(text, k + 1)))

Whitespaces == {<<" ">>, <<"\t">>, <<"\n">>, <<"\r">>, <<" ", "\n">>}

\* the parser p after the chunk with ws inserted after its first j characters
ConsumePadded(p, chunk, j, ws) ==
    consume(p, SubSeq(chunk, 1, j) \o ws \o SubSeq(chunk, j + 1, Len(chunk)))

\* two calls raise alike and, when they return, show the same value
SameResult(a, b) == a.exc = b.exc /\ (a.exc = "none" => get(a) = get(b))

\* whitespace inserted between two tokens inside the next chunk changes
\* neither the outcome of the call nor the value of get() after it
PaddingInChunk ==
    \A n \in 1..(Len(doc) - pos) : \A j \in 0..n : \A ws \in Whitespaces :
        BetweenTokens(doc, pos + j)
            => SameResult(consume(Self, SubSeq(doc, pos + 1, pos + n)),
                          ConsumePadded(Self, SubSeq(doc, pos + 1, pos + n), j, ws))

\* whitespace inserted between two tokens as a chunk of its own is accepted
\* and leaves the value of get() as it was
PaddingAsChunk ==
    \A ws \in Whitespaces :
        BetweenTokens(doc, pos)
            => (consume(Self, ws).exc = "none" /\ get(consume(Self, ws)) = get(Self))

\* C26: whitespace between tokens is ignored: inserting JSON whitespace
\* (space, tab, LF, CR) between two tokens of the document, inside a chunk or
\* as a chunk of its own, changes neither the value returned by get() nor
\* whether consume raises.
C26_WhitespaceIgnored ==
    outcome \in {"none", "ok"} => (PaddingInChunk /\ PaddingAsChunk)

\* C27: consume has two outcomes only, in every parser state and for every
\* chunk: it returns normally or raises the Malformed error; no other
\* exception kind escapes it.
C27_TwoOutcomes == outcome \in {"none", "ok", Malformed}

\* C28: a '}' met while the top object frame waits for a colon or for a
\* value (as in '{"a"}' and '{"a":}') makes consume raise Malformed, and the
\* frame is not popped.
C28_EndObjectStates ==
    [][(/\ outcome = "ok"
        /\ token_type = "None"
        /\ stack # <<>>
        /\ TopIsDict
        /\ Top(Self).state \in {OBJECT_WAITING_COLON, OBJECT_WAITING_VALUE}
        /\ DeliveredToken = "}")
           => (/\ outcome' = Malformed
               /\ Len(stack') >= Len(stack)
               /\ \A j \in 1..Len(stack) : stack'[j].container = stack[j].container)]_vars

\* C29: in key position only a terminated string is accepted: no object of
\* the value get() returns has a key that is not a string.
C29_StringKeysOnly ==
    \A k \in KeysOf(get(Self)) : k.t = "str"

\* C30: a number token ends at the first character outside the number class,
\* whitespace included: a second numeric run that follows a number and
\* whitespace is a second token, and consume raises Malformed at it instead
\* of joining the two runs.
C30_NumberRunEndsAtWhitespace ==
    [][(/\ outcome = "ok"
        /\ token_type = "number"
        /\ Delivered # <<>>
        /\ NumberChar(DeliveredToken)
        /\ IsWhitespace(Delivered[1]) \/ IsWhitespace(buffer[Len(buffer)]))
           => outcome' = Malformed]_vars

\* the value the top frame of the current state is about to receive, read in
\* the containers h: the member under the pending key of an object, the last
\* element of an array
InstalledIn(h) ==
    IF TopIsDict THEN DictGet(h[Top(Self).container].items, Top(Self).last_key)
    ELSE h[Top(Self).container].items[Len(h[Top(Self).container].items)]

C31_WitnessJunk ==
    /\ outcome = Malformed
    /\ token_type = "literal"
    /\ last_index > 0
    /\ last_index < Len(buffer)
    /\ WordChar(buffer[last_index + 1])
    /\ ~\E lit \in Literals : StartsWith(lit, partial_token)

\* the top frame of the current state expects a comma / a colon
ExpectsComma ==
    stack # <<>> /\ Top(Self).state \in {OBJECT_WAITING_COMMA, ARRAY_WAITING_COMMA}
ExpectsColon ==
    stack # <<>> /\ TopIsDict /\ Top(Self).state = OBJECT_WAITING_COLON

\* C32: separators are accepted only in the state that expects them.  With
\* no token in progress, a comma met in any state but comma-or-end (or with
\* an empty stack) makes consume raise Malformed, and so does a colon met
\* anywhere but in an object frame that expects a colon; an accepted comma
\* moves an object frame to OBJECT_WAITING_KEY and an array frame to
\* ARRAY_WAITING_VALUE, an accepted colon moves the frame to
\* OBJECT_WAITING_VALUE.
C32_Separators ==
    [][(outcome = "ok" /\ token_type = "None")
           => (/\ (DeliveredToken = "," /\ ~ExpectsComma) => outcome' = Malformed
               /\ (DeliveredToken = ":" /\ ~ExpectsColon) => outcome' = Malformed
               /\ (Delivered = <<",">> /\ ExpectsComma)
                      => (/\ outcome' = "ok"
                          /\ Len(stack') = Len(stack)
                          /\ stack'[Len(stack)].state =
                                 IF TopIsDict THEN OBJECT_WAITING_KEY
                                              ELSE ARRAY_WAITING_VALUE)
               /\ (Delivered = <<":">> /\ ExpectsColon)
                      => (/\ outcome' = "ok"
                          /\ Len(stack') = Len(stack)
                          /\ stack'[Len(stack)].state = OBJECT_WAITING_VALUE))]_vars

\* consume raised at a comma met where a value was expected, after an
\* accepted comma ('[1, ,')
C32_Witness ==
    /\ outcome = Malformed
    /\ token_type = "None"
    /\ stack # <<>>
    /\ Top(Self).state = ARRAY_WAITING_VALUE
    /\ heap[Top(Self).container].items # <<>>
    /\ last_index > 0
    /\ last_index < Len(buffer)
    /\ buffer[_find_non_whitespace_index(buffer, last_index) + 1] = ","

\* C33: at every consume return, by a normal return or by an exception, the
\* stack is empty if root is set; and once root is set no later call clears
\* it or replaces it by another container.
C33_RootStable ==
    [][/\ root' # PyNone => stack' = <<>>
       /\ root # PyNone => root' = root]_vars

\* the root is set and a later call that delivered an opening brace raised
C33_Witness ==
    /\ root # PyNone
    /\ stack = <<>>
    /\ outcome = Malformed
    /\ last_index < Len(buffer)
    /\ EndsWithCloser(SubSeq(buffer, 1, last_index))
    /\ buffer[_find_non_whitespace_index(buffer, last_index) + 1] = "{"

\* opening delimiters minus closing delimiters among the first k characters
\* of text, counted outside the strings
RECURSIVE NestingDepth(_, _)
NestingDepth(text, k) ==
    IF k = 0 THEN 0
    ELSE NestingDepth(text, k - 1)
         + (IF ~Outside(text, k) THEN 0
            ELSE IF text[k] \in {"{", "["} THEN 1
            ELSE IF text[k] \in {"}", "]"} THEN -1
            ELSE 0)

\* the container of frame j + 1 is a member of the container of frame j: the
\* last element of an array, a value of an object
NestedIn(j) ==
    LET items == heap[stack[j].container].items
        child == PyRef(stack[j + 1].container)
    IN  IF heap[stack[j].container].kind = "list"
        THEN items # <<>> /\ items[Len(items)] = child
        ELSE \E m \in 1..Len(items) : items[m].v = child

\* C34: at every successful consume return the stack depth is the number of
\* containers opened and not yet closed in the input consumed so far
\* (opening minus closing delimiters outside the strings), and the container
\* of each frame is the member most recently installed in the container of
\* the frame below it.
C34_StackIsNesting ==
    outcome = "ok"
        => (/\ Len(stack) = NestingDepth(buffer, Len(buffer))
            /\ \A j \in 1..(Len(stack) - 1) : NestedIn(j))

\* C35: at every consume return, the pending key (last_key) of a frame is
\* set if and only if the frame is an object frame that expects a value.
C35_PendingKey ==
    \A j \in 1..Len(stack) :
        (stack[j].last_key # PyNone)
            <=> (heap[stack[j].container].kind = "dict"
                 /\ stack[j].state = OBJECT_WAITING_VALUE)

\* the containers that have a frame on the stack
OnStack == {stack[j].container : j \in 1..Len(stack)}

\* C36: a container is frozen once its closing delimiter has popped its
\* frame: no later consume call adds, removes or replaces a member of a
\* container that has no frame on the stack.
C36_ClosedFrozen ==
    [][\A id \in 1..Len(heap) : id \notin OnStack => heap'[id] = heap[id]]_vars

\* an array was closed inside an array that is still open, and a later
\* element has been committed after it
C36_Witness ==
    /\ outcome = "ok"
    /\ stack # <<>>
    /\ ~TopIsDict
    /\ heap[Top(Self).container].items # <<>>
    /\ heap[Top(Self).container].items[Len(heap[Top(Self).container].items)].t # "ref"
    /\ \E m \in 1..(Len(heap[Top(Self).container].items) - 1) :
           /\ heap[Top(Self).container].items[m].t = "ref"
           /\ heap[Top(Self).container].items[m].id \notin OnStack

\* C37: error atomicity: when a consume call raises, the value returned by
\* get() and the stack are the same as before that call.
C37_ErrorAtomic ==
    [][outcome' \notin {"none", "ok"}
           => (get(Self)' = get(Self) /\ stack' = stack)]_vars

\* C38: nothing is silently discarded.  With a number or literal in
\* progress, a call that delivers one character returns normally only if
\* the token is kept: a character that is no structural delimiter and no
\* whitespace is added to the token, and a quote does not make the token go
\* away.
C38_NothingDropped ==
    [][(/\ outcome = "ok"
        /\ token_type \in {"number", "literal"}
        /\ Len(Delivered) = 1
        /\ outcome' = "ok")
           => (/\ WordChar(Delivered[1])
                      => partial_token' = Append(partial_token, Delivered[1])
               /\ Delivered[1] = "\""
                      => (token_type' = token_type /\ partial_token' = partial_token))]_vars

\* C39: the two parser variants are behaviourally equivalent: given the
\* same chunks, they raise on the same consume calls and their get() values
\* are equal after every call.
C39_VariantsEquivalent ==
    outcome # "none"
        => (/\ (outcome = "ok") <=> (stack_parser.exc = "none")
            /\ get(Self) = get(stack_parser))

\* the quantity that bounds the iterations still to come: twice the
\* characters not yet scanned, plus one while no token kind is chosen
LoopVariant(p, i) == 2 * (Len(p.buffer) - i) + (IF p.token_type = "None" THEN 1 ELSE 0)

\* every iteration of the loop from index i keeps the index within the
\* buffer and, unless it leaves the loop, makes LoopVariant smaller
RECURSIVE LoopProgress(_, _)
LoopProgress(p, i) ==
    LET r == LoopBody(p, i)
    IN  /\ r.i <= Len(p.buffer)
        /\ r.i >= i
        /\ r.done
           \/ /\ LoopVariant(r.p, r.i) < LoopVariant(p, i)
              /\ r.i > i \/ (p.token_type = "None" /\ r.p.token_type # "None")
              /\ LoopProgress(r.p, r.i)

\* the parser the iterations of LoopBody from index i end with
RECURSIVE RunLoop(_, _)
RunLoop(p, i) ==
    LET r == LoopBody(p, i)
    IN  IF ~r.done THEN RunLoop(r.p, r.i)
        ELSE IF r.p.exc # "none" THEN r.p
        ELSE ParseEnd(r.p, r.i)

\* the parser at the start of the _parse call of a step
AtCall == [Self EXCEPT !.buffer = buffer']

\* C40: every consume call terminates: each iteration of the parse loop
\* advances the scan index or moves token_type from None to a token kind
\* (so a bounded quantity decreases), the index never exceeds the buffer
\* length, and the resume index stored at return is not smaller than the one
\* stored by the previous call.
C40_LoopTerminates ==
    [][snapshot' = NoSnapshot
           => (/\ LoopProgress(AtCall, last_index)
               /\ RunLoop(AtCall, last_index).stack = stack'
               /\ RunLoop(AtCall, last_index).heap = heap'
               /\ RunLoop(AtCall, last_index).last_index = last_index'
               /\ last_index' <= Len(buffer')
               /\ last_index' >= last_index)]_vars

\* a call scanned a chunk with a string, a number and delimiters to its end
C40_Witness ==
    /\ outcome = "ok"
    /\ last_index = Len(buffer)
    /\ Len(buffer) >= 4
    /\ token_type = "None"
    /\ \E k \in 1..Len(buffer) : buffer[k] = "\""
    /\ \E k \in 1..Len(buffer) : NumberChar(buffer[k]) /\ Outside(buffer, k)

====
